---- MODULE Spec2Model ----
(***************************************************************************)
(* Model of src/app.py, the Streamlit stock-market dashboard.              *)
(*                                                                         *)
(* app.py is read as the two scripts it is pasted together from:           *)
(*   - the gainers/losers dashboard, lines 1-109: display_dashboard() is   *)
(*     called at line 106 and the module-level statement that follows it,  *)
(*     line 109, reads `symbols`, a name local to get_top_gainers_losers,  *)
(*     so a run that gets that far ends there in a NameError               *)
(*     (specification Spec);                                               *)
(*   - the ticker page, lines 125-244: the sidebar inputs, the ticker      *)
(*     charts and the portfolio upload (specification SpecPage).           *)
(* Line 50 is read at the indentation of the function body it belongs to.  *)
(*                                                                         *)
(* An exception that no handler of app.py catches ends the script run:     *)
(* Streamlit shows it and executes nothing further.                        *)
(***************************************************************************)
EXTENDS Integers, Sequences, FiniteSets, TLC

VARIABLES
    symbols,        \* get_top_gainers_losers: the tracked list (line 19)
    market,         \* what the data provider holds for each symbol today
    data,           \* get_top_gainers_losers: data, filled in list order
    top_5_gainers,  \* result of get_top_gainers_losers (line 82)
    top_5_losers,   \* result of get_top_gainers_losers (line 83)
    pc,             \* position of the script run
    error,          \* the uncaught exception that ended the run, or "none"
    page,           \* what the run has written to the main page, in order
    sidebar,        \* the messages the run has written to the sidebar
    ticker_data,    \* ticker page: the module-level data of line 178
    moving_averages,\* ticker page: the windows selected at line 203
    uploaded_file,  \* ticker page: the file in the uploader of line 210
    tickers,        \* ticker page: the list of line 224
    ticker_idx,     \* ticker page: how many of tickers line 230 has taken
    row,            \* trend classifier: the indicator row
    K,              \* trend classifier: the tolerance factor, in percent
    trend           \* trend classifier: the result

dashVars == <<symbols, market, data, top_5_gainers, top_5_losers>>
pageVars == <<sidebar, ticker_data, moving_averages, uploaded_file, tickers, ticker_idx>>
classVars == <<row, K, trend>>
vars == <<dashVars, pageVars, classVars, pc, error, page>>

----------------------------------------------------------------------------
(* Bounds of the model and the input domains.                              *)

\* The tracked list has 150 entries in app.py; the model tracks up to this many.
NumSymbols == 10

\* Longest price series a rich market holds for one symbol.
MaxPoints == 3

\* head(5) and tail(5), lines 82-83.
TopN == 5

\* Prices of the rich markets. Both divide 100, so that PercentChange is exact.
Prices == {1, 2}

\* A PricePoint, reduced to the two columns get_top_gainers_losers reads.
PricePoints == [Open : Prices, Close : Prices]

RECURSIVE SeqsUpTo(_, _)
SeqsUpTo(S, n) ==
    IF n = 0 THEN {<<>>}
    ELSE LET shorter == SeqsUpTo(S, n - 1)
         IN  shorter \cup {Append(s, x) : s \in {t \in shorter : Len(t) = n - 1}, x \in S}

\* Every series of at most MaxPoints points, the empty one included.
SeriesSet == SeqsUpTo(PricePoints, MaxPoints)

\* Rich markets: one or two symbols, any series each.
RichLists == {1, 2}
RichMarkets == UNION {[1..n -> SeriesSet] : n \in RichLists}

\* Wide markets: up to NumSymbols symbols; each opens at 100 and closes its
\* second bar at 100 plus or minus its own step. Neighbouring symbols share a
\* step, so equal changes occur.
Step(s) == (s + 1) \div 2
WideSeries(s, d) ==
    IF d = 0 THEN <<>>
    ELSE <<[Open |-> 100, Close |-> 100],
           [Open |-> 100, Close |-> 100 + d * Step(s)]>>
WideMarkets ==
    UNION {{[s \in 1..n |-> WideSeries(s, dir[s])] : dir \in [1..n -> {1, -1}]} :
              n \in 1..NumSymbols}

\* Gappy markets: wide markets of a few more than five symbols in which the
\* provider may have nothing for a symbol.
GappyMarkets ==
    UNION {{[s \in 1..n |-> WideSeries(s, dir[s])] : dir \in [1..n -> {1, -1, 0}]} :
              n \in (TopN + 1)..(TopN + 2)}

Markets == RichMarkets \cup WideMarkets \cup GappyMarkets

----------------------------------------------------------------------------
(* get_top_gainers_losers, lines 17-85.                                    *)

\* Line 66: ((close_price - open_price) / open_price) * 100. The model's
\* open prices divide 100, so the integer quotient is the exact value.
PercentChange(open_price, close_price) ==
    ((close_price - open_price) * 100) \div open_price

\* A slip of line 64: the open of the last row instead of the first.
LastOpenPrice(stock_data) == stock_data[Len(stock_data)].Open

\* Line 64: stock_data.iloc[0]['Open'].
OpenPrice(stock_data) == stock_data[1].Open

\* Line 65: stock_data.iloc[-1]['Close'].
ClosePrice(stock_data) == stock_data[Len(stock_data)].Close

\* A slip of line 62: a series needs two rows to count.
HasTwoRows(stock_data) == Len(stock_data) > 1

\* Line 62: if not stock_data.empty.
HasData(stock_data) == Len(stock_data) > 0

\* Line 67: the row appended for one symbol.
MoverRecord(symbol, stock_data) ==
    [Symbol |-> symbol,
     Change |-> PercentChange(OpenPrice(stock_data), ClosePrice(stock_data))]

\* Lines 58-67: the rows of gainers_losers over the first k entries of d, in
\* the dict's insertion order, which is the order of the list.
RECURSIVE GainersLosers(_, _)
GainersLosers(d, k) ==
    IF k = 0 THEN <<>>
    ELSE IF HasData(d[k])
         THEN Append(GainersLosers(d, k - 1), MoverRecord(k, d[k]))
         ELSE GainersLosers(d, k - 1)

Rows(df) == {df[j] : j \in 1..Len(df)}

\* Line 79: sort_values(by='Change (%)', ascending=False). The default sort
\* kind is quicksort, which is not stable: rows of equal Change may come out
\* in any relative order. The set of all outcomes.
RECURSIVE SortedDescending(_)
SortedDescending(rows) ==
    IF rows = {} THEN {<<>>}
    ELSE LET top == {r \in rows : \A q \in rows : q.Change <= r.Change}
         IN  UNION {{<<r>> \o rest : rest \in SortedDescending(rows \ {r})} : r \in top}

\* A slip of line 79: ascending=True.
RECURSIVE SortedAscending(_)
SortedAscending(rows) ==
    IF rows = {} THEN {<<>>}
    ELSE LET low == {r \in rows : \A q \in rows : r.Change <= q.Change}
         IN  UNION {{<<r>> \o rest : rest \in SortedAscending(rows \ {r})} : r \in low}

SortValuesAscending(df) == SortedAscending(Rows(df))

SortValues(df) == SortedDescending(Rows(df))

Min(a, b) == IF a < b THEN a ELSE b

\* Line 82: df.head(5).
HeadRows(df) == SubSeq(df, 1, Min(TopN, Len(df)))

\* A slip of line 83: one row too many.
TailRowsPlusOne(df) == SubSeq(df, Len(df) - Min(TopN + 1, Len(df)) + 1, Len(df))

\* Another slip of line 83: head in place of tail.
TailRowsAsHead(df) == SubSeq(df, 1, Min(TopN, Len(df)))

\* Line 83: df.tail(5).
TailRows(df) == SubSeq(df, Len(df) - Min(TopN, Len(df)) + 1, Len(df))

----------------------------------------------------------------------------
(* The dashboard script, lines 87-109.                                     *)

\* The values the variables of the other scripts keep while one script runs.
DashboardIdle ==
    /\ symbols = <<>>
    /\ market = <<>>
    /\ data = <<>>
    /\ top_5_gainers = <<>>
    /\ top_5_losers = <<>>

PageIdle ==
    /\ sidebar = <<>>
    /\ ticker_data = [rows |-> 0, columns |-> {}, ma |-> {}]
    /\ moving_averages = {}
    /\ uploaded_file = [present |-> FALSE, readable |-> FALSE, columns |-> {}, Symbol |-> <<>>]
    /\ tickers = <<>>
    /\ ticker_idx = 0

ClassifierIdle ==
    /\ row = [macd |-> 0, rsi |-> 0, close |-> 0, bb_upper |-> 0, ema20 |-> 0]
    /\ K = 0
    /\ trend = "none"

Init ==
    /\ market \in Markets
    /\ symbols = [s \in DOMAIN market |-> s]
    /\ data = <<>>
    /\ top_5_gainers = <<>>
    /\ top_5_losers = <<>>
    /\ pc = "fetch"
    /\ error = "none"
    /\ page = <<"Stock Market Dashboard", "Today's Top Gainers and Losers">>
    /\ PageIdle
    /\ ClassifierIdle

\* Lines 53-55, one iteration: yf.download returns the symbol's series.
Fetch ==
    /\ pc = "fetch"
    /\ Len(data) < Len(symbols)
    /\ data' = Append(data, market[symbols[Len(data) + 1]])
    /\ UNCHANGED <<symbols, market, top_5_gainers, top_5_losers, pc, error, page, pageVars, classVars>>

\* Lines 53-55, one iteration: yf.download raises. Nothing in
\* get_top_gainers_losers or display_dashboard catches it.
FetchRaises ==
    /\ pc = "fetch"
    /\ Len(data) < Len(symbols)
    /\ pc' = "ended"
    /\ error' = "FetchError"
    /\ UNCHANGED <<dashVars, page, pageVars, classVars>>

\* Lines 57-85 with no row: pd.DataFrame([]) has no 'Change (%)' column and
\* line 73 raises KeyError.
RankRaises ==
    /\ pc = "fetch"
    /\ Len(data) = Len(symbols)
    /\ GainersLosers(data, Len(data)) = <<>>
    /\ pc' = "ended"
    /\ error' = "KeyError"
    /\ UNCHANGED <<dashVars, page, pageVars, classVars>>

\* Lines 57-85: build the rows, sort them, take head and tail.
Rank ==
    /\ pc = "fetch"
    /\ Len(data) = Len(symbols)
    /\ GainersLosers(data, Len(data)) # <<>>
    /\ \E df_gainers_losers \in SortValues(GainersLosers(data, Len(data))) :
          /\ top_5_gainers' = HeadRows(df_gainers_losers)
          /\ top_5_losers' = TailRows(df_gainers_losers)
    /\ pc' = "display"
    /\ UNCHANGED <<symbols, market, data, error, page, pageVars, classVars>>

\* Lines 96-102: the two tables are written.
Display ==
    /\ pc = "display"
    /\ page' = page \o <<"### Top 5 Gainers Today", "### Top 5 Losers Today">>
    /\ pc' = "select"
    /\ UNCHANGED <<dashVars, error, pageVars, classVars>>

\* Lines 108-109: the subheader is written, then st.selectbox(..., symbols)
\* reads a name that is not defined at module level.
SelectChart ==
    /\ pc = "select"
    /\ page' = Append(page, "Stock Price Chart")
    /\ pc' = "ended"
    /\ error' = "NameError"
    /\ UNCHANGED <<dashVars, pageVars, classVars>>

Next ==
    \/ Fetch
    \/ FetchRaises
    \/ RankRaises
    \/ Rank
    \/ Display
    \/ SelectChart

Spec == Init /\ [][Next]_vars

----------------------------------------------------------------------------
(* Properties of the dashboard script.                                     *)

\* The ranking has returned (line 85).
Ranked == pc \in {"display", "select"} \/ error = "NameError"

\* The rows that were ranked.
Records == Rows(GainersLosers(data, Len(data)))

RankedRows == Rows(top_5_gainers) \cup Rows(top_5_losers)

Changes(df) == [j \in 1..Len(df) |-> df[j].Change]

NonIncreasing(df) == \A j \in 1..(Len(df) - 1) : df[j].Change >= df[j + 1].Change

NonDecreasing(df) == \A j \in 1..(Len(df) - 1) : df[j].Change <= df[j + 1].Change

\* C1: top_5_gainers holds min(5, count) distinct rows of the ranked rows, in
\* non-increasing Change order, and no row left out of it has a Change
\* greater than a row in it.
C1_TopGainersAreTheLargest ==
    Ranked =>
        /\ Len(top_5_gainers) = Min(TopN, Cardinality(Records))
        /\ Cardinality(Rows(top_5_gainers)) = Len(top_5_gainers)
        /\ Rows(top_5_gainers) \subseteq Records
        /\ NonIncreasing(top_5_gainers)
        /\ \A r \in Records \ Rows(top_5_gainers) :
               \A t \in Rows(top_5_gainers) : r.Change <= t.Change

\* More than five rows were ranked, the gainers differ among themselves and
\* a row with a smaller Change was left out.
C1_Witness ==
    /\ Ranked
    /\ Cardinality(Records) > TopN
    /\ top_5_gainers[1].Change > top_5_gainers[TopN].Change
    /\ \E r \in Records \ Rows(top_5_gainers) : r.Change < top_5_gainers[TopN].Change

\* C2: top_5_losers holds the rows of smallest Change in non-decreasing
\* Change order, the worst loser first.
C2_LosersWorstFirst ==
    Ranked =>
        /\ NonDecreasing(top_5_losers)
        /\ \A r \in Records \ Rows(top_5_losers) :
               \A t \in Rows(top_5_losers) : t.Change <= r.Change

\* C4: when the fetch of one symbol fails, every other symbol of the list is
\* still fetched.
C4_FetchFailureIsolated ==
    error = "FetchError" =>
        \A s \in 1..Len(symbols) : s # Len(data) + 1 => s \in DOMAIN data

\* C6: a symbol whose series has exactly one point has no row among the
\* ranked rows.
C6_OnePointExcluded ==
    (Ranked /\ Len(symbols) <= 2 * TopN) =>
        \A r \in RankedRows : Len(data[r.Symbol]) # 1

\* C6 as amended: a symbol whose series has exactly one point has a row, whose
\* Change is (Close - Open) / Open * 100 of that point; a symbol whose series
\* is empty has none.
C6_OnePointRanked ==
    (Ranked /\ Len(symbols) <= 2 * TopN) =>
        \A s \in 1..Len(symbols) :
            /\ Len(data[s]) = 1 =>
                   [Symbol |-> s,
                    Change |-> ((data[s][1].Close - data[s][1].Open) * 100)
                                   \div data[s][1].Open] \in RankedRows
            /\ Len(data[s]) = 0 => \A r \in RankedRows : r.Symbol # s

\* A one-point series whose close differs from its open has been ranked.
C6_Witness ==
    /\ Ranked
    /\ \E r \in RankedRows :
          /\ Len(data[r.Symbol]) = 1
          /\ r.Change # 0

LastTwo(stock_data) == SubSeq(stock_data, Len(stock_data) - 1, Len(stock_data))

\* C7: two series that share their last two points give rows of equal Change.
C7_LastTwoPointsDecide ==
    Ranked =>
        \A r1, r2 \in RankedRows :
            (/\ Len(data[r1.Symbol]) >= 2
             /\ Len(data[r2.Symbol]) >= 2
             /\ LastTwo(data[r1.Symbol]) = LastTwo(data[r2.Symbol]))
                => r1.Change = r2.Change

\* C7 as amended: two series that share the Open of their first point and the
\* Close of their last point give rows of equal Change.
C7_FirstOpenLastCloseDecide ==
    Ranked =>
        \A r1, r2 \in RankedRows :
            (/\ data[r1.Symbol][1].Open = data[r2.Symbol][1].Open
             /\ data[r1.Symbol][Len(data[r1.Symbol])].Close
                    = data[r2.Symbol][Len(data[r2.Symbol])].Close)
                => r1.Change = r2.Change

\* Two ranked series of different lengths, with different last two points,
\* that share first Open and last Close and move.
C7_Witness ==
    /\ Ranked
    /\ \E r1, r2 \in RankedRows :
          /\ r1.Symbol # r2.Symbol
          /\ Len(data[r1.Symbol]) = MaxPoints
          /\ Len(data[r2.Symbol]) = 2
          /\ LastTwo(data[r1.Symbol]) # LastTwo(data[r2.Symbol])
          /\ data[r1.Symbol][1].Open = data[r2.Symbol][1].Open
          /\ data[r1.Symbol][MaxPoints].Open # data[r2.Symbol][2].Open
          /\ data[r1.Symbol][MaxPoints].Close = data[r2.Symbol][2].Close
          /\ r1.Change # 0

SymbolBreaksTies(df) ==
    \A j \in 1..(Len(df) - 1) :
        df[j].Change = df[j + 1].Change => df[j].Symbol < df[j + 1].Symbol

\* C8: rows of equal Change are listed in the lexical order of their symbols.
C8_TiesInSymbolOrder ==
    Ranked => SymbolBreaksTies(top_5_gainers) /\ SymbolBreaksTies(top_5_losers)

\* The Change values of a set of rows, largest first.
RECURSIVE DescendingChanges(_)
DescendingChanges(rows) ==
    IF rows = {} THEN <<>>
    ELSE LET r == CHOOSE r \in rows : \A q \in rows : q.Change <= r.Change
         IN  <<r.Change>> \o DescendingChanges(rows \ {r})

\* C8 as amended: the sequences of Change values of top_5_gainers and of
\* top_5_losers are the first and the last min(5, count) of the ranked rows'
\* Change values taken largest first, so they depend on the set of rows alone.
C8_ChangesDependOnRowsOnly ==
    Ranked =>
        LET all == DescendingChanges(Records)
            n   == Min(TopN, Len(all))
        IN  /\ Changes(top_5_gainers) = SubSeq(all, 1, n)
            /\ Changes(top_5_losers) = SubSeq(all, Len(all) - n + 1, Len(all))

\* Rows of equal Change came out against the order of their symbols.
C8_Witness ==
    /\ Ranked
    /\ Cardinality(Records) > TopN
    /\ ~SymbolBreaksTies(top_5_gainers)
    /\ ~SymbolBreaksTies(top_5_losers)

\* C9: top_5_gainers and top_5_losers share a symbol only when fewer than
\* 2 * 5 rows were ranked.
C9_OverlapOnlyBelowTenRows ==
    Ranked =>
        ((\E g \in Rows(top_5_gainers) : \E l \in Rows(top_5_losers) :
              g.Symbol = l.Symbol)
            => Cardinality(Records) < 2 * TopN)

\* Ten rows or more were ranked.
C9_Witness ==
    /\ Ranked
    /\ Cardinality(Records) >= 2 * TopN
    /\ Len(top_5_gainers) = TopN
    /\ Len(top_5_losers) = TopN

\* C10: once every symbol is fetched the ranking completes without error,
\* over exactly the symbols whose series is not empty.
C10_EmptySeriesSkipped ==
    (Len(data) = Len(symbols) /\ pc # "fetch" /\ Len(symbols) <= 2 * TopN) =>
        /\ error # "KeyError"
        /\ {r.Symbol : r \in RankedRows} = {s \in 1..Len(data) : data[s] # <<>>}

----------------------------------------------------------------------------
(* The ticker page, lines 125-244.                                         *)

\* Most rows a fetched history or an uploaded portfolio has.
MaxRows == 2

\* Line 203: options=[10, 20, 50, 100, 200].
MAOptions == {10, 20, 50, 100, 200}

\* Line 16: the columns of a history.
HistoryColumns == {"Open", "High", "Low", "Close", "Volume"}

\* The histories stock.history may return: a frame of 0..MaxRows rows.
Histories == [rows : 0..MaxRows, columns : {HistoryColumns}, ma : {{}}]

NaN == "NaN"
TickerNames == {"INFY.NS", "TCS.NS"}

\* No file in the uploader: uploaded_file is None.
NoUpload == [present |-> FALSE, readable |-> FALSE, columns |-> {}, Symbol |-> <<>>]

\* The files a user may upload: one that pd.read_csv / pd.read_excel cannot
\* parse, one whose columns lack 'Symbol', and portfolios with a 'Symbol'
\* column of at most MaxRows cells, each a ticker or missing.
Uploads ==
    {NoUpload}
    \cup {[present |-> TRUE, readable |-> FALSE, columns |-> {}, Symbol |-> <<>>]}
    \cup {[present |-> TRUE, readable |-> TRUE, columns |-> {"Ticker", "Qty"}, Symbol |-> <<>>]}
    \cup {[present |-> TRUE, readable |-> TRUE, columns |-> {"Symbol", "Qty"}, Symbol |-> col] :
              col \in SeqsUpTo(TickerNames \cup {NaN}, MaxRows)}

\* Line 224: portfolio['Symbol'].dropna().unique().tolist().
RECURSIVE DropNaUnique(_)
DropNaUnique(col) ==
    IF col = <<>> THEN <<>>
    ELSE LET front == DropNaUnique(SubSeq(col, 1, Len(col) - 1))
             last  == col[Len(col)]
         IN  IF last = NaN \/ \E j \in 1..Len(front) : front[j] = last
             THEN front
             ELSE Append(front, last)

\* Lines 144-148: plot_daily_returns adds a column and draws.
PlotDailyReturns(df) == [df EXCEPT !.columns = @ \cup {"Daily Return"}]

\* Lines 150-154: plot_cumulative_returns adds a column and draws.
PlotCumulativeReturns(df) == [df EXCEPT !.columns = @ \cup {"Cumulative Return"}]

\* Lines 156-164: plot_moving_averages adds one column per window and draws.
\* The column f"MA{window}" is kept as its window in the field ma.
PlotMovingAverages(df, windows) == [df EXCEPT !.ma = @ \cup windows]

\* A slip of line 220: the check never fires.
NeverLacksSymbol(portfolio) == FALSE

\* Line 220: 'Symbol' not in portfolio.columns.
LacksSymbol(portfolio) == "Symbol" \notin portfolio.columns

InitPage ==
    /\ DashboardIdle
    /\ ClassifierIdle
    /\ sidebar = <<>>
    /\ ticker_data = [rows |-> 0, columns |-> {}, ma |-> {}]
    /\ moving_averages = {}
    /\ uploaded_file \in Uploads
    /\ tickers = <<>>
    /\ ticker_idx = 0
    /\ pc = "inputs"
    /\ error = "none"
    /\ page = <<>>

\* Lines 173-178: the sidebar inputs are drawn and fetch_stock_data returns.
Inputs ==
    /\ pc = "inputs"
    /\ sidebar' = Append(sidebar, "Stock Selection")
    /\ ticker_data' \in Histories
    /\ pc' = "visualize"
    /\ UNCHANGED <<dashVars, classVars, moving_averages, uploaded_file, tickers,
                   ticker_idx, error, page>>

\* Lines 173-178: fetch_stock_data raises; nothing catches it.
InputsRaises ==
    /\ pc = "inputs"
    /\ sidebar' = Append(sidebar, "Stock Selection")
    /\ pc' = "ended"
    /\ error' = "FetchError"
    /\ UNCHANGED <<dashVars, classVars, ticker_data, moving_averages, uploaded_file,
                   tickers, ticker_idx, page>>

\* Lines 181-206 with data: the table and the charts, then the moving
\* averages when some window is selected.
Visualize ==
    /\ pc = "visualize"
    /\ ticker_data.rows > 0
    /\ \E selected \in SUBSET MAOptions :
          /\ moving_averages' = selected
          /\ page' = page
                \o <<"Stock Data", "data.tail()",
                     "Candlestick Chart", "plot_candlestick",
                     "Volume Chart", "plot_volume",
                     "Daily Returns", "plot_daily_returns",
                     "Cumulative Returns", "plot_cumulative_returns">>
                \o (IF selected # {}
                    THEN <<"Moving Averages", "plot_moving_averages">>
                    ELSE <<>>)
          /\ ticker_data' =
                IF selected # {}
                THEN PlotMovingAverages(PlotCumulativeReturns(PlotDailyReturns(ticker_data)),
                                        selected)
                ELSE PlotCumulativeReturns(PlotDailyReturns(ticker_data))
    /\ sidebar' = Append(sidebar, "Moving Averages")
    /\ pc' = "upload"
    /\ UNCHANGED <<dashVars, classVars, uploaded_file, tickers, ticker_idx, error>>

\* Line 181 with an empty history: nothing is drawn.
VisualizeNothing ==
    /\ pc = "visualize"
    /\ ticker_data.rows = 0
    /\ pc' = "upload"
    /\ UNCHANGED <<dashVars, classVars, pageVars, error, page>>

\* Lines 209-212 with no file: the section is skipped and the run ends.
UploadNone ==
    /\ pc = "upload"
    /\ ~uploaded_file.present
    /\ sidebar' = Append(sidebar, "Portfolio Analysis")
    /\ pc' = "ended"
    /\ UNCHANGED <<dashVars, classVars, ticker_data, moving_averages, uploaded_file,
                   tickers, ticker_idx, error, page>>

\* Lines 213-217, 243-244: the file cannot be parsed; the handler reports it.
UploadUnreadable ==
    /\ pc = "upload"
    /\ uploaded_file.present
    /\ ~uploaded_file.readable
    /\ sidebar' = sidebar \o <<"Portfolio Analysis", "Error processing file">>
    /\ pc' = "ended"
    /\ UNCHANGED <<dashVars, classVars, ticker_data, moving_averages, uploaded_file,
                   tickers, ticker_idx, error, page>>

\* Lines 219-222: the file has no 'Symbol' column; the error goes to the
\* sidebar and st.stop() ends the run, leaving what is on the page. st.stop()
\* raises StopException, which derives from BaseException: the handler of
\* line 243 does not catch it.
UploadNoSymbol ==
    /\ pc = "upload"
    /\ uploaded_file.present
    /\ uploaded_file.readable
    /\ LacksSymbol(uploaded_file)
    /\ sidebar' = sidebar \o <<"Portfolio Analysis", "Uploaded file must contain a 'Symbol' column">>
    /\ pc' = "ended"
    /\ UNCHANGED <<dashVars, classVars, ticker_data, moving_averages, uploaded_file,
                   tickers, ticker_idx, error, page>>

\* Lines 224-229: the tickers are read and the overview is written.
UploadOverview ==
    /\ pc = "upload"
    /\ uploaded_file.present
    /\ uploaded_file.readable
    /\ ~LacksSymbol(uploaded_file)
    /\ tickers' = DropNaUnique(uploaded_file.Symbol)
    /\ ticker_idx' = 0
    /\ sidebar' = Append(sidebar, "Portfolio Analysis")
    /\ page' = page \o <<"Portfolio Overview", "portfolio", "Portfolio Stock Charts">>
    /\ pc' = "portfolio"
    /\ UNCHANGED <<dashVars, classVars, ticker_data, moving_averages, uploaded_file, error>>

\* Lines 230-241, one iteration: yf.download returns and the chart is drawn.
\* Line 232 assigns the module-level data.
PortfolioChart ==
    /\ pc = "portfolio"
    /\ ticker_idx < Len(tickers)
    /\ ticker_idx' = ticker_idx + 1
    /\ ticker_data' \in Histories
    /\ page' = page \o <<tickers[ticker_idx + 1], "6 Month Candlestick Chart">>
    /\ UNCHANGED <<dashVars, classVars, sidebar, moving_averages, uploaded_file, tickers,
                   pc, error>>

\* Lines 230-241, one iteration: yf.download raises after the heading is
\* written; the handler of line 243, outside the loop, reports it and the
\* remaining tickers are not charted.
PortfolioRaises ==
    /\ pc = "portfolio"
    /\ ticker_idx < Len(tickers)
    /\ ticker_idx' = ticker_idx + 1
    /\ page' = Append(page, tickers[ticker_idx + 1])
    /\ sidebar' = Append(sidebar, "Error processing file")
    /\ pc' = "ended"
    /\ UNCHANGED <<dashVars, classVars, ticker_data, moving_averages, uploaded_file,
                   tickers, error>>

\* Line 230: the list is exhausted.
PortfolioDone ==
    /\ pc = "portfolio"
    /\ ticker_idx = Len(tickers)
    /\ pc' = "ended"
    /\ UNCHANGED <<dashVars, classVars, pageVars, error, page>>

NextPage ==
    \/ Inputs
    \/ InputsRaises
    \/ Visualize
    \/ VisualizeNothing
    \/ UploadNone
    \/ UploadUnreadable
    \/ UploadNoSymbol
    \/ UploadOverview
    \/ PortfolioChart
    \/ PortfolioRaises
    \/ PortfolioDone

SpecPage == InitPage /\ [][NextPage]_vars

----------------------------------------------------------------------------
(* Properties of the ticker page.                                          *)

\* What lines 181-206 leave on the page for the inputs of the run.
TickerCharts ==
    IF ticker_data.rows = 0 THEN <<>>
    ELSE <<"Stock Data", "data.tail()", "Candlestick Chart", "plot_candlestick",
           "Volume Chart", "plot_volume", "Daily Returns", "plot_daily_returns",
           "Cumulative Returns", "plot_cumulative_returns">>
         \o (IF moving_averages = {} THEN <<>>
             ELSE <<"Moving Averages", "plot_moving_averages">>)

InSeq(x, q) == \E j \in 1..Len(q) : q[j] = x

\* The run got through the upload section of lines 208-244.
UploadSectionDone == pc = "ended" /\ error = "none"

C4_PortfolioFailureIsolated ==
    (pc = "ended" /\ InSeq("Portfolio Stock Charts", page)) => ticker_idx = Len(tickers)

----------------------------------------------------------------------------
(* The trend classifier of section 4.1 of the specification. app.py holds  *)
(* no trend rule; the rule is modelled from the specification, one         *)
(* comparison per step, in the order given there, stopping at the first    *)
(* that fails.                                                             *)

\* Rule 1: macd > 0.
MacdPositive(r) == r.macd > 0

\* Rule 2: rsi > 50.
RsiAboveFifty(r) == r.rsi > 50

\* Rule 3: close >= bb_upper * K, K in percent.
TouchesUpperBand(r, k) == r.close * 100 >= r.bb_upper * k

\* Rule 4 with the comparison loosened.
AtOrAboveEma(r) == r.close >= r.ema20

\* Rule 4: close > ema20.
AboveEma(r) == r.close > r.ema20

\* The two observed tolerance factors, 0.98 and 1.0, in percent.
Tolerances == {98, 100}

\* Fully populated rows around the four boundaries.
IndicatorRows ==
    [macd : {-1, 0, 1}, rsi : {49, 50, 51}, close : {97, 98, 99, 100, 101},
     bb_upper : {100}, ema20 : {98, 100}]

InitClassify ==
    /\ DashboardIdle
    /\ PageIdle
    /\ row \in IndicatorRows
    /\ K \in Tolerances
    /\ trend = "none"
    /\ pc = "rule1"
    /\ error = "none"
    /\ page = <<>>

Verdict(holds, following) ==
    /\ pc' = IF holds THEN following ELSE "classified"
    /\ trend' = IF ~holds THEN "NotUpward"
                ELSE IF following = "classified" THEN "Upward" ELSE trend
    /\ UNCHANGED <<dashVars, pageVars, row, K, error, page>>

CheckMacd == pc = "rule1" /\ Verdict(MacdPositive(row), "rule2")

CheckRsi == pc = "rule2" /\ Verdict(RsiAboveFifty(row), "rule3")

CheckBand == pc = "rule3" /\ Verdict(TouchesUpperBand(row, K), "rule4")

CheckEma == pc = "rule4" /\ Verdict(AboveEma(row), "classified")

NextClassify ==
    \/ CheckMacd
    \/ CheckRsi
    \/ CheckBand
    \/ CheckEma

SpecClassify == InitClassify /\ [][NextClassify]_vars

\* C3: classify returns Upward exactly when macd > 0, rsi > 50,
\* close >= bb_upper * K and close > ema20 all hold, and NotUpward otherwise,
\* the boundaries macd = 0, rsi = 50 and close = ema20 included.
C3_UpwardIffAllFour ==
    pc = "classified" =>
        /\ trend \in {"Upward", "NotUpward"}
        /\ trend = "Upward" <=>
               (/\ row.macd > 0
                /\ row.rsi > 50
                /\ row.close * 100 >= row.bb_upper * K
                /\ row.close > row.ema20)

\* A row on the ema20 boundary, the other three rules holding, is classified.
C3_Witness ==
    /\ pc = "classified"
    /\ trend = "NotUpward"
    /\ row.macd > 0
    /\ row.rsi > 50
    /\ row.close * 100 >= row.bb_upper * K
    /\ row.close = row.ema20

====
